---- MODULE Spec2Model ----
(***************************************************************************)
(* State-machine model of the rrk.ir scraper: the session guard            *)
(* (withSessionRetry / renewSession), the search orchestrator              *)
(* (executeSearch) with its on-disk pagination checkpoint, the combination *)
(* generator, the worker distributor and the backoff fetch                 *)
(* (fetchAndSaveHtml).                                                     *)
(*                                                                         *)
(* Modelling conventions                                                   *)
(*  - A cookie string is modelled by whether it is non-empty, the form     *)
(*    tokens harvested from a page by whether the page carried them.       *)
(*  - company_data.csv is the sequence of the payloads handed to           *)
(*    fs.appendFile; a payload is an optional header line followed by the  *)
(*    listing rows lo..hi.                                                 *)
(*  - File writes are taken to succeed, except that a crash during the     *)
(*    checkpoint write may leave status.json unreadable.                   *)
(***************************************************************************)
EXTENDS Integers, Sequences, FiniteSets, TLC

VARIABLES
    \* ---- disk -----------------------------------------------------------
    credentials,     \* credentials.json: url key -> entry
    status,          \* status.json of the query (its paginationStatus)
    csv,             \* company_data.csv of the query
    results,         \* search_results.json of the query
    \* ---- portal ---------------------------------------------------------
    listing,         \* number of company rows the portal lists for the query
    \* ---- executeSearch --------------------------------------------------
    pc,              \* position of executeSearch
    result,          \* result of the accept step
    minRow, totalCompanies, isFirstBatch,
    resultAjaxCompany, \* response of the current listing page
    failure,         \* the error executeSearch rethrew, with where it arose
    \* ---- withSessionRetry ----------------------------------------------
    wsr,             \* position inside withSessionRetry / renewSession
    handler,         \* "try" or "catch": the block of withSessionRetry running
    \* ---- processCompanyData --------------------------------------------
    companies,       \* number of parsed rows of the page being processed
    chunkStart,      \* loop index i of the chunk loop
    currentTotal,
    \* ---- observation (history, not program state) -----------------------
    opCalls,         \* invocations of operation() in the current withSessionRetry call
    renewCalls,      \* invocations of renewSession in the current call
    expiredSeen,     \* session-expired signals seen in the current call
    wlog,            \* events of the current withSessionRetry call, in order
    lastCall,        \* the last flow step issued in this run
    pagesThisRun,    \* listing pages processed in this run
    history,         \* how each earlier run of the query ended
    persisted,       \* the last checkpoint written to status.json in full
    \* ---- worker distributor --------------------------------------------
    totalCombinations, workers, workerIndex, assigned, dpc,
    \* ---- generateCombinationsIterative ---------------------------------
    maxLength, combinations, newCombinations, currentLength, combIndex,
    letterIndex, gpc,
    \* ---- fetchAndSaveHtml ----------------------------------------------
    attempt, fpc, outcomes, waits,
    \* ---- saveCredentials / loadCredentials (fileUtils.ts) ---------------
    credFile,        \* credentials.json with its entries' cookies and tokens
    saves,           \* the saveCredentials calls made: url, data, entries before
    loaded,          \* what the last loadCredentials returned
    \* ---- processExtractedUrls -------------------------------------------
    urlCount,        \* urls.length
    urlIndex,        \* index of the url the loop is at
    currentBatch,    \* currentBatch.length
    successCount, errorCount,
    extractedCsv,    \* extracted_data.csv: the payloads appended to it
    xpc,
    \* ---- makeRequestAndSaveCredentials called in a row ------------------
    requests,        \* the calls made: keys, response, store before
    \* ---- isSessionExpired called on responses ---------------------------
    probes,          \* the responses tested, each with the answer
    \* ---- workers sharing credentials.json -------------------------------
    wpc,             \* position of each worker inside its flow step
    wop,             \* the flow step each worker runs
    wloaded,         \* what the flow step's loadCredentials returned
    wexisting,       \* existingData of the saveCredentials call under way
    wrenewing,       \* the worker is inside renewSession
    wretried,        \* the worker's withSessionRetry has renewed already
    savedKeys,       \* urls saved since credentials.json was last cleared
    \* ---- main -----------------------------------------------------------
    mpc,             \* position of main
    lengthStr, workersStr, confirm,   \* the answers typed at the prompts
    length,          \* parseInt(lengthStr)
    searches,        \* executeSearch calls each worker has issued
    wstate,          \* each worker promise: running, resolved or rejected
    rlClosed,        \* rl.close() was called
    mainLog          \* messages main has logged

diskVars    == <<credentials, status, csv, results>>
searchVars  == <<listing, pc, result, minRow, totalCompanies, isFirstBatch,
                 resultAjaxCompany, failure, wsr, handler, companies,
                 chunkStart, currentTotal, opCalls, renewCalls, expiredSeen,
                 wlog, lastCall, pagesThisRun, history, persisted>>
distVars    == <<totalCombinations, workers, workerIndex, assigned, dpc>>
genVars     == <<maxLength, combinations, newCombinations, currentLength,
                 combIndex, letterIndex, gpc>>
fetchVars   == <<attempt, fpc, outcomes, waits>>
credVars    == <<credFile, saves, loaded>>
extractVars == <<urlCount, urlIndex, currentBatch, successCount, errorCount,
                 extractedCsv, xpc>>
requestVars == <<requests>>
probeVars   == <<probes>>
workerVars  == <<wpc, wop, wloaded, wexisting, wrenewing, wretried,
                 savedKeys>>
promptVars  == <<mpc, lengthStr, workersStr, confirm, length, searches,
                 wstate, rlClosed, mainLog>>
concVars    == <<workerVars, promptVars>>
utilVars    == <<credVars, extractVars, requestVars, probeVars, concVars>>
mainVars    == <<diskVars, searchVars, distVars, genVars, fetchVars>>
\* what the steps of one utility leave alone
exceptCred    == <<mainVars, extractVars, requestVars, probeVars, concVars>>
exceptExtract == <<mainVars, credVars, requestVars, probeVars, concVars>>
exceptRequest == <<status, csv, results, searchVars, distVars, genVars,
                   fetchVars, credVars, extractVars, probeVars, concVars>>
exceptProbe   == <<mainVars, credVars, extractVars, requestVars, concVars>>
exceptWorkers == <<status, csv, results, searchVars, distVars, genVars,
                   fetchVars, credVars, extractVars, requestVars, probeVars,
                   promptVars>>
exceptMain    == <<diskVars, searchVars, workerIndex, assigned, dpc, genVars,
                   fetchVars, credVars, extractVars, requestVars, probeVars,
                   workerVars>>
vars        == <<diskVars, searchVars, distVars, genVars, fetchVars, utilVars>>

-----------------------------------------------------------------------------
(* Bounds of the model *)

\* executeSearch runs of the one query (fresh, crashed, resumed)
MaxRuns == 2
\* largest number of combinations handed to the distributor
MaxTotal == 12
\* largest number of workers
MaxWorkers == 6
\* largest combination length generated
MaxLen == 2
\* saveCredentials calls in a row
MaxSaves == 2
\* isSessionExpired calls in a row
MaxProbes == 2
\* makeRequestAndSaveCredentials calls in a row
MaxRequests == 2
\* largest number of urls handed to processExtractedUrls
MaxUrls == 52
\* workers running at once on credentials.json
MaxConcurrent == 2
\* letters of the alphabet main's combinations are built from
MaxLetters == 2
\* listing sizes the portal may serve: empty, one chunk, exactly one page,
\* one page and a partial second page
Listings == {0, 30, 1000, 1030}

(* Program constants *)
perPage == 1000
CHUNK_SIZE == 50
MAX_RETRIES == 3
RETRY_DELAY == 2000
AlphabetSize == 33
BATCH_SIZE == 50

SessionEndedMessage == "Your session has ended."

-----------------------------------------------------------------------------
(* Credential store (fileUtils.ts) *)

\* the urls whose entries the program reads back: the home page and the search
\* page. Entries saved under any other url are written and never read, and
\* are left out of the modelled store.
Keys == {"home", "search"}
NoEntry == [present |-> FALSE, cookies |-> FALSE, tokens |-> FALSE]
Entry(c, t) == [present |-> TRUE, cookies |-> c, tokens |-> t]
EmptyStore == [k \in Keys |-> NoEntry]

\* saveCredentials: the entry of url gets the new cookies; every key of the
\* new formData overrides the stored one (extractFormCredentials assigns
\* every field), the other urls are kept
saveCredentials(store, url, cookieString, tokens) ==
    [store EXCEPT ![url] = Entry(cookieString, tokens)]

\* credentials?.[key]?.cookies, truthy
CookiesOf(store, key) == store[key].present /\ store[key].cookies

\* what a page GET answers: a Set-Cookie header or not, the form tokens
\* (p_instance, ajax identifiers) or not
PageResponses == [cookie : BOOLEAN, tokens : BOOLEAN]

\* the pages the portal serves in the search model: every page sets a session
\* cookie; the form tokens may be missing
ServedPages == {r \in PageResponses : r.cookie}

\* errors a request can throw: an Axios error whose response body is the
\* session-expired object; an Axios network error or 5xx response with any
\* other body; any other error
ErrKinds == {"axiosExpired", "axiosNetwork", "other"}

\* makeRequestAndSaveCredentials(url, credentialsKey) on a response resp:
\* the store after it. lookupKey "none" is credentialsKey = null.
\* extractFormCredentials always returns an object with the keys
\* ajaxIdentifiers and companyRegionData, so the save condition
\* (cookieString || Object.keys(formCredentials).length > 0) is met.
FormKeyCount(resp) == IF resp.tokens THEN 3 ELSE 2
CookieString(store, lookupKey, resp) ==
    resp.cookie \/ (lookupKey # "none" /\ CookiesOf(store, lookupKey))
makeRequestAndSaveCredentials(store, saveKey, lookupKey, resp) ==
    IF /\ CookieString(store, lookupKey, resp) \/ FormKeyCount(resp) > 0
       /\ saveKey \in Keys
    THEN saveCredentials(store, saveKey,
                         CookieString(store, lookupKey, resp), resp.tokens)
    ELSE store

\* getInitialCookies (scraper.ts): the home page request, then the search
\* page request when the home page carried p_instance. The set of its
\* outcomes: the store it leaves, the cookies it returns, the error it throws
\* ("none" when it returns).
getInitialCookies(store) ==
    LET afterHome(h) == makeRequestAndSaveCredentials(store, "home", "none", h)
    IN  { [store |-> store, cookies |-> FALSE, err |-> e] : e \in ErrKinds }
        \cup
        UNION { IF h.tokens
                THEN { [store |-> makeRequestAndSaveCredentials(
                                      afterHome(h), "search", "home", s),
                        cookies |-> CookieString(store, "none", h),
                        err |-> "none"] : s \in ServedPages }
                     \cup
                     { [store |-> afterHome(h), cookies |-> FALSE, err |-> e]
                       : e \in ErrKinds }
                ELSE { [store |-> afterHome(h),
                        cookies |-> CookieString(store, "none", h),
                        err |-> "none"] }
              : h \in ServedPages }

-----------------------------------------------------------------------------
(* credentials.json as saveCredentials / loadCredentials see it              *)
(* (fileUtils.ts 26-119): an entry's cookie string and its formData object,  *)
(* key by key.                                                               *)

\* a key an object does not have, and a key whose value is undefined
Absent == "absent"
Undefined == "undefined"

\* two of the form fields extractFormCredentials harvests, and their values
TokenKeys == {"instance", "flowId"}
TokenValues == {"a", "b"}
CookieStrings == {"c1", "c2"}

\* the formData of newData: each key missing, undefined or a string
DataObjects == [TokenKeys -> TokenValues \cup {Absent, Undefined}]
\* newData as makeRequestAndSaveCredentials passes it: {cookies, formData}
NewData == [cookies : CookieStrings, formData : DataObjects]

EmptyObject == [k \in TokenKeys |-> Absent]
NoFileEntry == [present |-> FALSE, cookies |-> Absent, formData |-> EmptyObject]
FileEntry(c, f) == [present |-> TRUE, cookies |-> c, formData |-> f]
NoEntries == [u \in Keys |-> NoFileEntry]
MissingFile == [exists |-> FALSE, entries |-> NoEntries]

\* variant: the new formData replaces the stored one
SpreadReplace(a, b) == b

\* {...a, ...b}: every own key of b, also one holding undefined, overrides a
SpreadOver(a, b) == [k \in TokenKeys |-> IF b[k] # Absent THEN b[k] ELSE a[k]]

\* JSON.stringify followed by JSON.parse: keys holding undefined are dropped
JsonValue(v) == IF v = Undefined THEN Absent ELSE v
JsonEntry(e) ==
    IF e.present
    THEN FileEntry(JsonValue(e.cookies),
                   [k \in TokenKeys |-> JsonValue(e.formData[k])])
    ELSE NoFileEntry
writeJsonFile(data) == [exists |-> TRUE, entries |-> [u \in Keys |-> JsonEntry(data[u])]]

\* readJsonFile: the parsed content, or null when the file cannot be read
NotLoaded == [state |-> "stale", entries |-> NoEntries]
readJsonFile(file) ==
    IF file.exists
    THEN [state |-> "entries", entries |-> file.entries]
    ELSE [state |-> "null", entries |-> NoEntries]

\* the entries saveCredentials starts from: existingData
ExistingData(file) == readJsonFile(file).entries

\* saveCredentials(url, newData): the file it writes
saveCredentialsFile(file, url, newData) ==
    LET existingData == ExistingData(file)
        updatedData ==
            [existingData EXCEPT
               ![url] = FileEntry(newData.cookies,
                                  SpreadOver(existingData[url].formData,
                                             newData.formData))]
    IN  writeJsonFile(updatedData)

IdleCred == credFile = MissingFile /\ saves = <<>> /\ loaded = NotLoaded
IdleExtract ==
    /\ urlCount = 0 /\ urlIndex = 0 /\ currentBatch = 0 /\ successCount = 0
    /\ errorCount = 0 /\ extractedCsv = <<>> /\ xpc = "idle"
IdleRequest == requests = <<>>
IdleProbe == probes = <<>>
\* the workers of main, numbered as Worker-0, Worker-1, ...
IdleWorkers ==
    /\ wpc = <<>> /\ wop = <<>> /\ wloaded = <<>> /\ wexisting = <<>>
    /\ wrenewing = <<>> /\ wretried = <<>> /\ savedKeys = {}
IdleMain ==
    /\ mpc = "idle" /\ lengthStr = <<>> /\ workersStr = <<>> /\ confirm = <<>>
    /\ length = 0 /\ searches = <<>> /\ wstate = <<>> /\ rlClosed = FALSE
    /\ mainLog = <<>>
IdleConc == IdleWorkers /\ IdleMain
IdleUtil == IdleCred /\ IdleExtract /\ IdleRequest /\ IdleProbe /\ IdleConc

-----------------------------------------------------------------------------
(* Responses and the session guard (scraper.ts 519-607) *)

\* a response body: an object (possibly null) or a string (an HTML page, with
\* the number of company rows its listing table holds)
Obj(err, redirect) ==
    [type |-> "object", null |-> FALSE, error |-> err, redirect |-> redirect,
     rows |-> 0]
ListingPage(n) ==
    [type |-> "string", null |-> FALSE, error |-> "none", redirect |-> FALSE,
     rows |-> n]
Html == ListingPage(0)
Null ==
    [type |-> "object", null |-> TRUE, error |-> "none", redirect |-> FALSE,
     rows |-> 0]
Expired == Obj(SessionEndedMessage, FALSE)

\* variant: any error property makes a response session-expired
isSessionExpiredAnyError(response) ==
    response.type = "object" /\ ~response.null /\ response.error # "none"

\* variant: every non-null object counts as session-expired
isSessionExpiredAnyObject(response) ==
    response.type = "object" /\ ~response.null

isSessionExpired(response) ==
    IF response.type = "object" /\ ~response.null
    THEN response.error = SessionEndedMessage
    ELSE FALSE

\* variant: the catch block also retries network and 5xx errors
IsRetryableError(err) == err \in {"axiosExpired", "axiosNetwork"}

\* the catch block's test: an Axios error whose response body is session-expired
IsSessionError(err) == err = "axiosExpired"

NoFailure == [err |-> "none", at |-> "none", step |-> "none"]

\* the steps of executeSearch that run under withSessionRetry
Wrapped == {"accept", "redirect", "ajax2", "company"}

\* withSessionRetry is entered for a step of executeSearch
BeginCall(step) ==
    /\ pc' = step
    /\ wsr' = "call"
    /\ handler' = "try"

\* the observation counters describe the current withSessionRetry call: its
\* first invocation of operation() starts them afresh
Base(x) == IF wsr = "call" THEN 0 ELSE x

\* operation() is invoked
Invoke ==
    /\ wsr \in {"call", "retry"}
    /\ opCalls' = Base(opCalls) + 1
    /\ renewCalls' = Base(renewCalls)
    /\ wlog' = IF wsr = "call" THEN <<"op">> ELSE Append(wlog, "op")

\* operation() returned r: in the try block a session-expired first result
\* starts renewSession, every other result is returned to executeSearch,
\* which goes on at `next`
Returned(r, next) ==
    /\ expiredSeen' =
           Base(expiredSeen) + (IF r = Expired THEN 1 ELSE 0)
    /\ IF wsr = "call" /\ isSessionExpired(r)
       THEN /\ wsr' = "clear"
            /\ UNCHANGED <<pc, handler, failure>>
       ELSE /\ wsr' = IF next \in Wrapped THEN "call" ELSE "idle"
            /\ handler' = "try"
            /\ pc' = next
            /\ UNCHANGED failure

\* operation() or renewSession threw err at `at`: inside the try block a
\* session-expired Axios error enters the catch block's renewal; everything
\* else, and every error thrown inside the catch block, leaves
\* withSessionRetry and executeSearch rethrows it
Thrown(err, at) ==
    /\ expiredSeen' =
           Base(expiredSeen) + (IF err = "axiosExpired" THEN 1 ELSE 0)
    /\ IF handler = "try" /\ IsSessionError(err)
       THEN /\ handler' = "catch"
            /\ wsr' = "clear"
            /\ UNCHANGED <<pc, failure>>
       ELSE /\ wsr' = "idle"
            /\ pc' = "failed"
            /\ failure' = [err |-> err, at |-> at, step |-> pc]
            /\ UNCHANGED handler

procVars == <<companies, chunkStart, currentTotal>>
runVars  == <<listing, history>>

\* renewSession, step 1: writeJsonFile(credentials.json, {})
ClearedStore == EmptyStore
RenewClear ==
    /\ wsr = "clear"
    /\ credentials' = ClearedStore
    /\ renewCalls' = renewCalls + 1
    /\ wlog' = Append(wlog, "clear")
    /\ wsr' = "home"
    /\ UNCHANGED <<status, csv, results, pc, result, minRow, totalCompanies,
                   isFirstBatch, resultAjaxCompany, failure, handler,
                   opCalls, expiredSeen, lastCall, pagesThisRun>>
    /\ UNCHANGED <<procVars, runVars, distVars, genVars, fetchVars,
                   utilVars, persisted>>

\* variant: the search page request is never made
AfterHomeSkip(h) == "retry"

\* after the home page request of getInitialCookies: the search page request
\* is made only when the home page carried p_instance
AfterHome(h) == IF h.tokens THEN "search" ELSE "retry"

\* renewSession, step 2: getInitialCookies' home page request
RenewHome ==
    /\ wsr = "home"
    /\ \/ \E h \in ServedPages :
            /\ credentials' =
                   makeRequestAndSaveCredentials(credentials, "home", "none", h)
            /\ wlog' = Append(wlog, IF h.tokens THEN "home+instance" ELSE "home")
            /\ wsr' = AfterHome(h)
            /\ UNCHANGED <<pc, handler, failure, expiredSeen>>
       \/ \E e \in ErrKinds :
            /\ Thrown(e, "renew")
            /\ wlog' = Append(wlog, "home failed")
            /\ UNCHANGED credentials
    /\ UNCHANGED <<status, csv, results, result, minRow, totalCompanies,
                   isFirstBatch, resultAjaxCompany, opCalls, renewCalls,
                   lastCall, pagesThisRun>>
    /\ UNCHANGED <<procVars, runVars, distVars, genVars, fetchVars,
                   utilVars, persisted>>

\* renewSession, step 3: getInitialCookies' search page request
RenewSearch ==
    /\ wsr = "search"
    /\ \/ \E s \in ServedPages :
            /\ credentials' =
                   makeRequestAndSaveCredentials(credentials, "search", "home", s)
            /\ wlog' = Append(wlog, "search")
            /\ wsr' = "retry"
            /\ UNCHANGED <<pc, handler, failure, expiredSeen>>
       \/ \E e \in ErrKinds :
            /\ Thrown(e, "renew")
            /\ wlog' = Append(wlog, "search failed")
            /\ UNCHANGED credentials
    /\ UNCHANGED <<status, csv, results, result, minRow, totalCompanies,
                   isFirstBatch, resultAjaxCompany, opCalls, renewCalls,
                   lastCall, pagesThisRun>>
    /\ UNCHANGED <<procVars, runVars, distVars, genVars, fetchVars,
                   utilVars, persisted>>

-----------------------------------------------------------------------------
(* Files of the query folder *)

NoStatus ==
    [kind |-> "absent", currentMinRow |-> 0, perPage |-> 0,
     totalProcessed |-> 0, isFirstBatch |-> FALSE]
Unreadable ==
    [kind |-> "unreadable", currentMinRow |-> 0, perPage |-> 0,
     totalProcessed |-> 0, isFirstBatch |-> FALSE]
\* the paginationStatus record updatePaginationStatus writes
PaginationStatus(row, per, total, first) ==
    [kind |-> "status", currentMinRow |-> row, perPage |-> per,
     totalProcessed |-> total, isFirstBatch |-> first]

\* getPaginationStatus: the record, or null for a missing or unparsable file
getPaginationStatus(st) == IF st.kind = "status" THEN st ELSE NoStatus

NoResults == [written |-> FALSE, totalCompanies |-> 0]

Min(a, b) == IF a < b THEN a ELSE b
Max(a, b) == IF a > b THEN a ELSE b

\* lines of one appended payload, and of the file
PayloadLines(p) == (IF p.hdr THEN 1 ELSE 0) + (p.hi - p.lo + 1)
RECURSIVE LineCount(_)
LineCount(file) ==
    IF file = <<>> THEN 0
    ELSE PayloadLines(Head(file)) + LineCount(Tail(file))

\* fileContent.split("\n").length - 2 of a file whose lines all end in "\n";
\* 0 when the file cannot be read
RowsInFile(file) == IF file = <<>> THEN 0 ELSE (LineCount(file) + 1) - 2

\* the rows the portal answers for a page request starting at row
PageRows(total, row) == Max(0, Min(perPage, total - row + 1))

-----------------------------------------------------------------------------
(* executeSearch (scraper.ts 610-753) *)

NoCall == [step |-> "none", minRow |-> 0]
Call(step, row) == [step |-> step, minRow |-> row]

Running == pc \in {"accept", "redirect", "ajax2", "resume", "company",
                   "process", "append", "checkpoint", "write"}

\* the locals of a run before executeSearch assigns them
ResetLocals ==
    /\ result' = Null
    /\ minRow' = 1
    /\ totalCompanies' = 0
    /\ isFirstBatch' = TRUE
    /\ resultAjaxCompany' = Null
    /\ companies' = 0
    /\ chunkStart' = 0
    /\ currentTotal' = 0

\* executeSearch is called for the query: first run, or a run after a crash,
\* a failure or a completed run
Start ==
    /\ pc \in {"idle", "crashed", "failed", "done"}
    /\ history' = IF pc = "idle" THEN history ELSE Append(history, pc)
    /\ Len(history') < MaxRuns
    /\ ResetLocals
    /\ BeginCall("accept")
    /\ opCalls' = 0 /\ renewCalls' = 0 /\ expiredSeen' = 0 /\ wlog' = <<>>
    /\ failure' = NoFailure
    /\ lastCall' = NoCall
    /\ pagesThisRun' = 0
    /\ UNCHANGED <<diskVars, listing>>
    /\ UNCHANGED <<distVars, genVars, fetchVars,
                   utilVars, persisted>>

\* cookie acquisition at the head of flowAccept / flowAjaxCompany: the stored
\* search page cookies, or getInitialCookies when there are none
AcquireCookies(store) ==
    IF CookiesOf(store, "search")
    THEN { [store |-> store, cookies |-> TRUE, err |-> "none"] }
    ELSE getInitialCookies(store)

\* cookie acquisition at the head of handleAjaxFlow: utils' getInitialCookies
\* fetches the search page and stores nothing
AcquireCookiesAjax(store) ==
    IF CookiesOf(store, "search")
    THEN { [store |-> store, cookies |-> TRUE, err |-> "none"] }
    ELSE { [store |-> store, cookies |-> TRUE, err |-> "none"] }
         \cup { [store |-> store, cookies |-> FALSE, err |-> e] : e \in ErrKinds }

\* what the accept POST may answer
AcceptResults == {Obj("none", TRUE), Obj("none", FALSE), Expired}
\* what an ajax POST may answer
AjaxResults == {Obj("none", FALSE), Html, Expired}
\* what a listing POST may answer for a page starting at row
CompanyResults(row) == {ListingPage(PageRows(listing, row)), Expired}

\* a result reaches executeSearch unless it is the first, session-expired one
Delivered(r) == ~(wsr = "call" /\ isSessionExpired(r))

\* whether executeSearch follows the accept result with the redirect fetch
FollowsRedirect(r) == ~r.null /\ r.redirect
AfterAccept(r) == IF FollowsRedirect(r) THEN "redirect" ELSE "ajax2"

\* new Error("No form credentials found")
NoFormCredentials == "noFormCredentials"

\* flowAccept(searchQuery) under withSessionRetry. The form credentials are
\* read from the credentials loaded at its head, also after getInitialCookies
\* has stored new ones
FlowAccept ==
    /\ pc = "accept"
    /\ Invoke
    /\ \E g \in AcquireCookies(credentials) :
         /\ credentials' = g.store
         /\ IF g.err # "none"
            THEN Thrown(g.err, "op") /\ UNCHANGED <<result, lastCall>>
            ELSE IF ~credentials["search"].present
            THEN /\ Thrown(NoFormCredentials, "op")
                 /\ UNCHANGED <<result, lastCall>>
            ELSE /\ lastCall' = Call("accept", 0)
                 /\ \/ \E r \in AcceptResults :
                         /\ Returned(r, AfterAccept(r))
                         /\ result' = IF Delivered(r) THEN r ELSE result
                    \/ \E e \in ErrKinds :
                         Thrown(e, "op") /\ UNCHANGED result
    /\ UNCHANGED <<status, csv, results, minRow, totalCompanies, isFirstBatch,
                   resultAjaxCompany, pagesThisRun>>
    /\ UNCHANGED <<procVars, runVars, distVars, genVars, fetchVars,
                   utilVars, persisted>>

\* makeRequestAndSaveCredentials(baseUrl + result.redirectURL, searchPage)
\* under withSessionRetry; the entry is saved under the redirect target's path
FollowRedirect ==
    /\ pc = "redirect"
    /\ Invoke
    /\ lastCall' = Call("redirect", 0)
    /\ \/ \E resp \in ServedPages, key \in {"search", "elsewhere"} :
            /\ credentials' =
                   makeRequestAndSaveCredentials(credentials, key, "search", resp)
            /\ Returned(Obj("none", FALSE), "ajax2")
       \/ \E e \in ErrKinds :
            Thrown(e, "op") /\ UNCHANGED credentials
    /\ UNCHANGED <<status, csv, results, result, minRow, totalCompanies,
                   isFirstBatch, resultAjaxCompany, pagesThisRun>>
    /\ UNCHANGED <<procVars, runVars, distVars, genVars, fetchVars,
                   utilVars, persisted>>

\* flowAjax2(searchQuery) = handleAjaxFlow under withSessionRetry: it needs
\* stored form credentials and the element's ajax identifier among them
FlowAjax2 ==
    /\ pc = "ajax2"
    /\ Invoke
    /\ \E g \in AcquireCookiesAjax(credentials) :
         IF g.err # "none"
         THEN Thrown(g.err, "op") /\ UNCHANGED lastCall
         ELSE IF ~credentials["search"].present \/ ~credentials["search"].tokens
         THEN Thrown("other", "op") /\ UNCHANGED lastCall
         ELSE /\ lastCall' = Call("ajax2", 0)
              /\ \/ \E r \in AjaxResults : Returned(r, "resume")
                 \/ \E e \in ErrKinds : Thrown(e, "op")
    /\ UNCHANGED <<diskVars, result, minRow, totalCompanies, isFirstBatch,
                   resultAjaxCompany, pagesThisRun>>
    /\ UNCHANGED <<procVars, runVars, distVars, genVars, fetchVars,
                   utilVars, persisted>>

\* variant: the listing loop ignores the checkpoint
ResumePointFresh(st) ==
    [minRow |-> 1, totalCompanies |-> 0, isFirstBatch |-> TRUE]

\* the start of the listing loop: the persisted status, or a fresh start
ResumePoint(st) ==
    IF getPaginationStatus(st).kind = "status"
    THEN [minRow |-> st.currentMinRow, totalCompanies |-> st.totalProcessed,
          isFirstBatch |-> st.isFirstBatch]
    ELSE [minRow |-> 1, totalCompanies |-> 0, isFirstBatch |-> TRUE]

\* executeSearch 655-681: read the checkpoint, enter the listing loop
Resume ==
    /\ pc = "resume"
    /\ minRow' = ResumePoint(status).minRow
    /\ totalCompanies' = ResumePoint(status).totalCompanies
    /\ isFirstBatch' = ResumePoint(status).isFirstBatch
    /\ BeginCall("company")
    /\ opCalls' = 0 /\ renewCalls' = 0 /\ expiredSeen' = 0 /\ wlog' = <<>>
    /\ UNCHANGED <<diskVars, result, resultAjaxCompany, failure, lastCall,
                   pagesThisRun>>
    /\ UNCHANGED <<procVars, runVars, distVars, genVars, fetchVars,
                   utilVars, persisted>>

\* flowAjaxCompany(searchQuery, perPage, minRow) under withSessionRetry
FlowAjaxCompany ==
    /\ pc = "company"
    /\ Invoke
    /\ \E g \in AcquireCookies(credentials) :
         /\ credentials' = g.store
         /\ IF g.err # "none"
            THEN Thrown(g.err, "op") /\ UNCHANGED <<resultAjaxCompany, lastCall>>
            ELSE /\ lastCall' = Call("company", minRow)
                 /\ \/ \E r \in CompanyResults(minRow) :
                         /\ Returned(r, "process")
                         /\ resultAjaxCompany' =
                                IF Delivered(r) THEN r ELSE resultAjaxCompany
                    \/ \E e \in ErrKinds :
                         Thrown(e, "op") /\ UNCHANGED resultAjaxCompany
    /\ UNCHANGED <<status, csv, results, result, minRow, totalCompanies,
                   isFirstBatch, pagesThisRun>>
    /\ UNCHANGED <<procVars, runVars, distVars, genVars, fetchVars,
                   utilVars, persisted>>

-----------------------------------------------------------------------------
(* processCompanyData (utils 975-1143) and the tail of the listing loop *)

wsrVars == <<wsr, handler, opCalls, renewCalls, expiredSeen, wlog>>

\* the payload of one fs.appendFile: the header line goes with the first
\* chunk of a first batch; the chunk holds the page's rows i .. i+CHUNK_SIZE-1
ChunkPayload(first, row, i, n) ==
    [hdr |-> first /\ i = 0,
     lo  |-> row + i,
     hi  |-> row + Min(i + CHUNK_SIZE, n) - 1]

\* processCompanyData up to the chunk loop: parse the rows; without rows
\* return {processedCount: 0, totalProcessed: 0}, which ends the listing loop
\* (0 < perPage) with totalCompanies = 0; otherwise count the rows already in
\* the file unless this is a first batch
ProcessCompanyData ==
    /\ pc = "process"
    /\ companies' = resultAjaxCompany.rows
    /\ chunkStart' = 0
    /\ IF resultAjaxCompany.rows = 0
       THEN /\ totalCompanies' = 0
            /\ pc' = "write"
            /\ UNCHANGED currentTotal
       ELSE /\ currentTotal' = IF isFirstBatch THEN 0 ELSE RowsInFile(csv)
            /\ pc' = "append"
            /\ UNCHANGED totalCompanies
    /\ opCalls' = 0 /\ renewCalls' = 0 /\ expiredSeen' = 0 /\ wlog' = <<>>
    /\ UNCHANGED <<diskVars, result, minRow, isFirstBatch, resultAjaxCompany,
                   failure, lastCall, pagesThisRun, wsr, handler>>
    /\ UNCHANGED <<runVars, distVars, genVars, fetchVars,
                   utilVars, persisted>>

\* one iteration of the chunk loop: fs.appendFile of CHUNK_SIZE rows
AppendChunk ==
    /\ pc = "append"
    /\ csv' = Append(csv, ChunkPayload(isFirstBatch, minRow, chunkStart, companies))
    /\ chunkStart' = chunkStart + CHUNK_SIZE
    /\ pc' = IF chunkStart + CHUNK_SIZE < companies THEN "append" ELSE "checkpoint"
    /\ UNCHANGED <<credentials, status, results, result, minRow, totalCompanies,
                   isFirstBatch, resultAjaxCompany, failure, companies,
                   currentTotal, lastCall, pagesThisRun>>
    /\ UNCHANGED <<wsrVars, runVars, distVars, genVars, fetchVars,
                   utilVars, persisted>>

\* variant: the next page overlaps the last row of this one
NextMinRowOverlap(row) == row + perPage - 1

\* the row the next page starts at
NextMinRow(row) == row + perPage

\* variant: the listing loop ends only on a page without rows
EndOfListingEmpty(processedCount) == processedCount = 0

\* the break of the listing loop: fewer rows than were asked for
EndOfListing(processedCount) == processedCount < perPage

\* the checkpoint processCompanyData persists for the page it has appended
Checkpoint(row, total, first) == PaginationStatus(row, perPage, total, first)

\* updatePaginationStatus, then processCompanyData returns and the loop
\* either ends (fewer rows than perPage) or moves to the next page
UpdatePaginationStatus ==
    /\ pc = "checkpoint"
    /\ status' = Checkpoint(minRow, currentTotal + companies, isFirstBatch)
    /\ persisted' = status'
    /\ totalCompanies' = currentTotal + companies
    /\ pagesThisRun' = pagesThisRun + 1
    /\ IF EndOfListing(companies)
       THEN /\ pc' = "write"
            /\ UNCHANGED <<minRow, isFirstBatch, wsrVars>>
       ELSE /\ minRow' = NextMinRow(minRow)
            /\ isFirstBatch' = FALSE
            /\ BeginCall("company")
            /\ UNCHANGED <<opCalls, renewCalls, expiredSeen, wlog>>
    /\ UNCHANGED <<credentials, csv, results, result, resultAjaxCompany,
                   failure, lastCall>>
    /\ UNCHANGED <<procVars, runVars, distVars, genVars, fetchVars,
                   utilVars>>

\* writeJsonFile(search_results.json, {totalCompanies}) and return
WriteResults ==
    /\ pc = "write"
    /\ results' = [written |-> TRUE, totalCompanies |-> totalCompanies]
    /\ pc' = "done"
    /\ UNCHANGED <<credentials, status, csv, result, minRow, totalCompanies,
                   isFirstBatch, resultAjaxCompany, failure, lastCall,
                   pagesThisRun>>
    /\ UNCHANGED <<wsrVars, procVars, runVars, distVars, genVars, fetchVars,
                   utilVars, persisted>>

\* the process dies: the files stay, everything in memory is lost
LoseMemory ==
    /\ ResetLocals
    /\ pc' = "crashed"
    /\ wsr' = "idle"
    /\ handler' = "try"
    /\ failure' = NoFailure
    /\ opCalls' = 0 /\ renewCalls' = 0 /\ expiredSeen' = 0 /\ wlog' = <<>>
    /\ lastCall' = NoCall
    /\ pagesThisRun' = 0

Crash ==
    /\ Running
    /\ LoseMemory
    /\ UNCHANGED <<diskVars, runVars, distVars, genVars, fetchVars,
                   utilVars, persisted>>

\* the process dies inside the write of status.json (fs.writeFile truncates
\* and rewrites the file): what is left does not parse
CrashInStatusWrite ==
    /\ pc = "checkpoint"
    /\ status' = Unreadable
    /\ LoseMemory
    /\ UNCHANGED <<credentials, csv, results>>
    /\ UNCHANGED <<runVars, distVars, genVars, fetchVars,
                   utilVars, persisted>>

-----------------------------------------------------------------------------
(* Specification of executeSearch for one query *)

\* the values of the variables of a part of the program that is not running
IdleDisk ==
    /\ credentials = EmptyStore /\ status = NoStatus /\ csv = <<>>
    /\ results = NoResults

IdleSearch ==
    /\ listing = 0 /\ pc = "idle" /\ result = Null
    /\ minRow = 1 /\ totalCompanies = 0 /\ isFirstBatch = TRUE
    /\ resultAjaxCompany = Null /\ failure = NoFailure /\ wsr = "idle"
    /\ handler = "try" /\ companies = 0 /\ chunkStart = 0 /\ currentTotal = 0
    /\ opCalls = 0 /\ renewCalls = 0 /\ expiredSeen = 0 /\ wlog = <<>>
    /\ lastCall = NoCall /\ pagesThisRun = 0 /\ history = <<>>
    /\ persisted = NoStatus

IdleDist ==
    /\ totalCombinations = 0 /\ workers = 0 /\ workerIndex = 0
    /\ assigned = <<>> /\ dpc = "idle"

IdleGen ==
    /\ maxLength = 0 /\ combinations = <<>> /\ newCombinations = <<>>
    /\ currentLength = 0 /\ combIndex = 0 /\ letterIndex = 0 /\ gpc = "idle"

IdleFetch ==
    /\ attempt = 0 /\ fpc = "idle" /\ outcomes = <<>> /\ waits = <<>>

\* a credential store as an earlier query of the same worker leaves it
StoredSession == [k \in Keys |-> Entry(TRUE, TRUE)]

Init ==
    /\ credentials \in {EmptyStore, StoredSession}
    /\ status = NoStatus /\ csv = <<>> /\ results = NoResults
    /\ listing \in Listings
    /\ pc = "idle" /\ result = Null
    /\ minRow = 1 /\ totalCompanies = 0 /\ isFirstBatch = TRUE
    /\ resultAjaxCompany = Null /\ failure = NoFailure /\ wsr = "idle"
    /\ handler = "try" /\ companies = 0 /\ chunkStart = 0 /\ currentTotal = 0
    /\ opCalls = 0 /\ renewCalls = 0 /\ expiredSeen = 0 /\ wlog = <<>>
    /\ lastCall = NoCall /\ pagesThisRun = 0 /\ history = <<>>
    /\ persisted = NoStatus
    /\ IdleDist /\ IdleGen /\ IdleFetch
    /\ IdleUtil

Next ==
    \/ Start
    \/ FlowAccept
    \/ FollowRedirect
    \/ FlowAjax2
    \/ Resume
    \/ FlowAjaxCompany
    \/ RenewClear
    \/ RenewHome
    \/ RenewSearch
    \/ ProcessCompanyData
    \/ AppendChunk
    \/ UpdatePaginationStatus
    \/ WriteResults
    \/ Crash
    \/ CrashInStatusWrite

Spec == Init /\ [][Next]_vars

-----------------------------------------------------------------------------
(* The listing loop against a portal that answers every page request with    *)
(* the rows of the page: the steps of executeSearch are taken as long as one  *)
(* is possible, and the process is not killed.                                *)

\* flowAjaxCompany answered with the rows minRow .. min(minRow+perPage-1, L)
AnsweredPage ==
    /\ FlowAjaxCompany
    /\ pc' = "process"
    /\ resultAjaxCompany' = ListingPage(PageRows(listing, minRow))

NextListing ==
    \/ Start
    \/ FlowAccept
    \/ FollowRedirect
    \/ FlowAjax2
    \/ Resume
    \/ AnsweredPage
    \/ RenewClear
    \/ RenewHome
    \/ RenewSearch
    \/ ProcessCompanyData
    \/ AppendChunk
    \/ UpdatePaginationStatus
    \/ WriteResults

SpecListing == Init /\ [][NextListing]_vars /\ WF_vars(NextListing)

-----------------------------------------------------------------------------
(* Runs of executeSearch for a query with a listing of several pages: the    *)
(* portal answers every page request, the process may be killed at any point  *)

LongListings == {1030, 2030}

InitCheckpoint ==
    /\ credentials = StoredSession
    /\ status = NoStatus /\ csv = <<>> /\ results = NoResults
    /\ listing \in LongListings
    /\ pc = "idle" /\ result = Null
    /\ minRow = 1 /\ totalCompanies = 0 /\ isFirstBatch = TRUE
    /\ resultAjaxCompany = Null /\ failure = NoFailure /\ wsr = "idle"
    /\ handler = "try" /\ companies = 0 /\ chunkStart = 0 /\ currentTotal = 0
    /\ opCalls = 0 /\ renewCalls = 0 /\ expiredSeen = 0 /\ wlog = <<>>
    /\ lastCall = NoCall /\ pagesThisRun = 0 /\ history = <<>>
    /\ persisted = NoStatus
    /\ IdleDist /\ IdleGen /\ IdleFetch
    /\ IdleUtil

NextCheckpoint ==
    \/ NextListing
    \/ Crash
    \/ CrashInStatusWrite

SpecCheckpoint == InitCheckpoint /\ [][NextCheckpoint]_vars

-----------------------------------------------------------------------------
(* generateCombinationsIterative (utils 848-908). A letter is its index in   *)
(* persianLetters, a string the sequence of its letters.                     *)

persianLetters == 1..AlphabetSize

\* the outer loop starts at length 2: the single letters are length 1
FirstLoopLength == 2

\* [...persianLetters]
SingleLetters == [i \in persianLetters |-> <<i>>]

InitGen ==
    /\ maxLength \in -1..MaxLen
    /\ combinations = <<>> /\ newCombinations = <<>>
    /\ currentLength = 0 /\ combIndex = 0 /\ letterIndex = 0
    /\ gpc = "start"
    /\ IdleDisk /\ IdleSearch /\ IdleDist /\ IdleFetch
    /\ IdleUtil

\* lines 884-888: the guard and the single letters
GenStart ==
    /\ gpc = "start"
    /\ IF maxLength <= 0
       THEN /\ combinations' = <<>>
            /\ gpc' = "returned"
            /\ UNCHANGED currentLength
       ELSE /\ combinations' = SingleLetters
            /\ currentLength' = FirstLoopLength
            /\ gpc' = "outer"
    /\ UNCHANGED <<maxLength, newCombinations, combIndex, letterIndex>>
    /\ UNCHANGED <<diskVars, searchVars, distVars, fetchVars,
                   utilVars>>

\* the head of the outer for loop: another length, or return combinations
GenOuter ==
    /\ gpc = "outer"
    /\ IF currentLength <= maxLength
       THEN /\ newCombinations' = <<>>
            /\ combIndex' = 1
            /\ letterIndex' = 1
            /\ gpc' = "inner"
       ELSE /\ gpc' = "returned"
            /\ UNCHANGED <<newCombinations, combIndex, letterIndex>>
    /\ UNCHANGED <<maxLength, combinations, currentLength>>
    /\ UNCHANGED <<diskVars, searchVars, distVars, fetchVars,
                   utilVars>>

\* newCombinations.push(combination + letter), and the step of the two
\* nested for-of loops
GenPush ==
    /\ gpc = "inner"
    /\ combIndex <= Len(combinations)
    /\ newCombinations' =
           Append(newCombinations, Append(combinations[combIndex], letterIndex))
    /\ IF letterIndex < AlphabetSize
       THEN letterIndex' = letterIndex + 1 /\ UNCHANGED combIndex
       ELSE letterIndex' = 1 /\ combIndex' = combIndex + 1
    /\ UNCHANGED <<maxLength, combinations, currentLength, gpc>>
    /\ UNCHANGED <<diskVars, searchVars, distVars, fetchVars,
                   utilVars>>

\* variant: the new combinations are added to the shorter ones
GenReplaceAccumulate ==
    /\ gpc = "inner"
    /\ combIndex > Len(combinations)
    /\ combinations' = combinations \o newCombinations
    /\ newCombinations' = <<>>
    /\ currentLength' = currentLength + 1
    /\ gpc' = "outer"
    /\ UNCHANGED <<maxLength, combIndex, letterIndex>>
    /\ UNCHANGED <<diskVars, searchVars, distVars, fetchVars,
                   utilVars>>

\* combinations = newCombinations; currentLength++
GenReplace ==
    /\ gpc = "inner"
    /\ combIndex > Len(combinations)
    /\ combinations' = newCombinations
    /\ newCombinations' = <<>>
    /\ currentLength' = currentLength + 1
    /\ gpc' = "outer"
    /\ UNCHANGED <<maxLength, combIndex, letterIndex>>
    /\ UNCHANGED <<diskVars, searchVars, distVars, fetchVars,
                   utilVars>>

NextGen ==
    \/ GenStart
    \/ GenOuter
    \/ GenPush
    \/ GenReplace

SpecGen == InitGen /\ [][NextGen]_vars

-----------------------------------------------------------------------------
(* The worker distributor of main (scraper.ts 829-866). A combination is its *)
(* index 0 .. totalCombinations-1 in allCombinations.                        *)

\* variant: Math.floor in place of Math.ceil
FloorDiv(a, b) == a \div b

\* Math.ceil(a / b) for a >= 0, b >= 1
CeilDiv(a, b) == (a + b - 1) \div b

\* the indices Array.prototype.slice(start, end) takes of an array of length
\* len, for start, end >= 0
Slice(len, start, end) ==
    {k \in 0..(len - 1) : Min(start, len) <= k /\ k < Min(end, len)}

InitDist ==
    /\ totalCombinations \in 1..MaxTotal
    /\ workers \in 1..MaxWorkers
    /\ workerIndex = 0
    /\ assigned = <<>>
    /\ dpc = "distribute"
    /\ IdleDisk /\ IdleSearch /\ IdleGen /\ IdleFetch
    /\ IdleUtil

\* one call of the Array.from callback: the slice of worker i
AssignWorker ==
    /\ dpc = "distribute"
    /\ workerIndex < workers
    /\ LET combinationsPerWorker == CeilDiv(totalCombinations, workers)
           startIndex == workerIndex * combinationsPerWorker
           endIndex == Min((workerIndex + 1) * combinationsPerWorker,
                           totalCombinations)
       IN  assigned' = Append(assigned,
                              Slice(totalCombinations, startIndex, endIndex))
    /\ workerIndex' = workerIndex + 1
    /\ UNCHANGED <<totalCombinations, workers, dpc>>
    /\ UNCHANGED <<diskVars, searchVars, genVars, fetchVars,
                   utilVars>>

\* every worker has its slice: Promise.all is awaited
AllAssigned ==
    /\ dpc = "distribute"
    /\ workerIndex = workers
    /\ dpc' = "running"
    /\ UNCHANGED <<totalCombinations, workers, workerIndex, assigned>>
    /\ UNCHANGED <<diskVars, searchVars, genVars, fetchVars,
                   utilVars>>

NextDist ==
    \/ AssignWorker
    \/ AllAssigned

SpecDist == InitDist /\ [][NextDist]_vars

-----------------------------------------------------------------------------
(* fetchAndSaveHtml (utils 518-615) *)

\* what one pass through the try block ends in: a response (axios resolves
\* every status below 500, validateStatus), or an error thrown by the
\* credential lookup or by the request
Response(st) == [ok |-> TRUE, axios |-> FALSE, code |-> "none", status |-> st]
Error(ax, code, st) == [ok |-> FALSE, axios |-> ax, code |-> code, status |-> st]
AttemptOutcomes ==
    { Response(200), Response(404), Response(499),
      Error(TRUE, "ECONNABORTED", 0), Error(TRUE, "ETIMEDOUT", 0),
      Error(TRUE, "ECONNRESET", 0), Error(TRUE, "ERR_BAD_RESPONSE", 500),
      Error(TRUE, "ERR_BAD_RESPONSE", 503), Error(TRUE, "ENOTFOUND", 0),
      Error(TRUE, "ERR_BAD_REQUEST", 403), Error(FALSE, "ETIMEDOUT", 0),
      Error(FALSE, "none", 0) }

\* variant: every Axios error is retried
RetryableAnyAxios(e) == e.axios

\* the catch block's test for waiting and trying again
Retryable(e) ==
    /\ e.axios
    /\ \/ e.code = "ECONNABORTED"
       \/ e.code = "ETIMEDOUT"
       \/ e.code = "ECONNRESET"
       \/ (e.status # 0 /\ e.status >= 500)

InitFetch ==
    /\ attempt = 1
    /\ fpc = "attempt"
    /\ outcomes = <<>>
    /\ waits = <<>>
    /\ IdleDisk /\ IdleSearch /\ IdleDist /\ IdleGen
    /\ IdleUtil

\* one iteration of the attempt loop up to its return, throw or delay
FetchAttempt ==
    /\ fpc = "attempt"
    /\ attempt <= MAX_RETRIES
    /\ \E o \in AttemptOutcomes :
         /\ outcomes' = Append(outcomes, o)
         /\ fpc' = IF o.ok THEN "returned"
                   ELSE IF attempt = MAX_RETRIES THEN "failedAfter"
                   ELSE IF Retryable(o) THEN "delay"
                   ELSE "rethrown"
    /\ UNCHANGED <<attempt, waits>>
    /\ UNCHANGED <<diskVars, searchVars, distVars, genVars, utilVars>>

\* variant: the same wait before every retry
RetryWaitFixed(k) == RETRY_DELAY

\* the milliseconds waited after failed attempt k
RetryWait(k) == RETRY_DELAY * k

\* await delay(RETRY_DELAY * attempt); continue
FetchDelay ==
    /\ fpc = "delay"
    /\ waits' = Append(waits, RetryWait(attempt))
    /\ attempt' = attempt + 1
    /\ fpc' = "attempt"
    /\ UNCHANGED outcomes
    /\ UNCHANGED <<diskVars, searchVars, distVars, genVars, utilVars>>

NextFetch ==
    \/ FetchAttempt
    \/ FetchDelay

SpecFetch == InitFetch /\ [][NextFetch]_vars

-----------------------------------------------------------------------------
(* saveCredentials and loadCredentials called in a row (fileUtils.ts 80-119) *)

InitCred ==
    /\ credFile = MissingFile
    /\ saves = <<>>
    /\ loaded = NotLoaded
    /\ IdleDisk /\ IdleSearch /\ IdleDist /\ IdleGen /\ IdleFetch
    /\ IdleExtract /\ IdleRequest /\ IdleProbe /\ IdleConc

\* saveCredentials(url, newData)
SaveCredentials ==
    /\ Len(saves) < MaxSaves
    /\ \E url \in Keys, newData \in NewData :
         /\ credFile' = saveCredentialsFile(credFile, url, newData)
         /\ saves' = Append(saves, [url |-> url, data |-> newData,
                                    before |-> ExistingData(credFile)])
    /\ loaded' = NotLoaded
    /\ UNCHANGED exceptCred

\* loadCredentials()
LoadCredentials ==
    /\ loaded = NotLoaded
    /\ loaded' = readJsonFile(credFile)
    /\ UNCHANGED <<credFile, saves>>
    /\ UNCHANGED exceptCred

NextCred ==
    \/ SaveCredentials
    \/ LoadCredentials

SpecCred == InitCred /\ [][NextCred]_vars

-----------------------------------------------------------------------------
(* processExtractedUrls and writeExtractedInfoBatchToCsv (utils 623-846) on  *)
(* a fresh query folder. extracted_data.csv is the sequence of the payloads  *)
(* appended to it: an optional header line, then the batch's rows, numbered  *)
(* from startRow.                                                            *)

\* lines of extracted_data.csv
ExtractedLines(file) ==
    IF file = <<>> THEN 0
    ELSE LET Sum[i \in 0..Len(file)] ==
                 IF i = 0 THEN 0
                 ELSE Sum[i - 1] + (IF file[i].hdr THEN 1 ELSE 0) + file[i].rows
         IN  Sum[Len(file)]

\* getCurrentRowCount: content.split("\n").length - 1, 0 without a file
getCurrentRowCount(file) ==
    IF file = <<>> THEN 0 ELSE (ExtractedLines(file) + 1) - 1

\* writeExtractedInfoBatchToCsv(filePath, data, isFirstBatch): the file after
\* the append of a batch of n records
writeExtractedInfoBatchToCsv(file, n, first) ==
    LET shouldAddHeaders == ExtractedLines(file) = 0
        startRow == IF shouldAddHeaders THEN 1 ELSE getCurrentRowCount(file)
    IN  Append(file, [hdr |-> first /\ shouldAddHeaders, rows |-> n,
                      startRow |-> startRow])

InitExtract ==
    /\ urlCount \in 0..MaxUrls
    /\ urlIndex = 0
    /\ currentBatch = 0
    /\ successCount = 0
    /\ errorCount = 0
    /\ extractedCsv = <<>>
    /\ xpc = "loop"
    /\ IdleDisk /\ IdleSearch /\ IdleDist /\ IdleGen /\ IdleFetch
    /\ IdleCred /\ IdleRequest /\ IdleProbe /\ IdleConc

\* the isFirstBatch argument of the batch written at url index
IsFirstBatchAt(index, file) == index < BATCH_SIZE

\* one iteration of the url loop: fetchAndSaveHtml succeeds or throws; after
\* a success the batch is written when it is full or the url is the last one
ProcessUrl ==
    /\ xpc = "loop"
    /\ urlIndex < urlCount
    /\ \/ /\ successCount' = successCount + 1
          /\ IF currentBatch + 1 >= BATCH_SIZE \/ urlIndex = urlCount - 1
             THEN /\ extractedCsv' =
                         writeExtractedInfoBatchToCsv(
                             extractedCsv, currentBatch + 1,
                             IsFirstBatchAt(urlIndex, extractedCsv))
                  /\ currentBatch' = 0
             ELSE /\ currentBatch' = currentBatch + 1
                  /\ UNCHANGED extractedCsv
          /\ UNCHANGED errorCount
       \/ /\ errorCount' = errorCount + 1
          /\ UNCHANGED <<successCount, currentBatch, extractedCsv>>
    /\ urlIndex' = urlIndex + 1
    /\ UNCHANGED <<urlCount, xpc>>
    /\ UNCHANGED exceptExtract

\* the loop is over: return successCount
ReturnSuccessCount ==
    /\ xpc = "loop"
    /\ urlIndex = urlCount
    /\ xpc' = "returned"
    /\ UNCHANGED <<urlCount, urlIndex, currentBatch, successCount, errorCount,
                   extractedCsv>>
    /\ UNCHANGED exceptExtract

NextExtract ==
    \/ ProcessUrl
    \/ ReturnSuccessCount

SpecExtract == InitExtract /\ [][NextExtract]_vars

-----------------------------------------------------------------------------
(* makeRequestAndSaveCredentials called in a row on any page response        *)
(* (scraper.ts 33-94)                                                        *)

InitRequest ==
    /\ credentials = EmptyStore
    /\ requests = <<>>
    /\ status = NoStatus /\ csv = <<>> /\ results = NoResults
    /\ IdleSearch /\ IdleDist /\ IdleGen /\ IdleFetch
    /\ IdleCred /\ IdleExtract /\ IdleProbe /\ IdleConc

\* makeRequestAndSaveCredentials(url, credentialsKey) answered by resp;
\* lookupKey "none" is credentialsKey = null
MakeRequest ==
    /\ Len(requests) < MaxRequests
    /\ \E saveKey \in Keys, lookupKey \in Keys \cup {"none"},
          resp \in PageResponses :
         /\ credentials' =
                makeRequestAndSaveCredentials(credentials, saveKey, lookupKey, resp)
         /\ requests' = Append(requests,
                               [saveKey |-> saveKey, lookupKey |-> lookupKey,
                                threw |-> FALSE, resp |-> resp,
                                before |-> credentials])
    /\ UNCHANGED exceptRequest

\* the request throws: nothing is saved
RequestFails ==
    /\ Len(requests) < MaxRequests
    /\ \E saveKey \in Keys, lookupKey \in Keys \cup {"none"} :
         requests' = Append(requests,
                            [saveKey |-> saveKey, lookupKey |-> lookupKey,
                             threw |-> TRUE,
                             resp |-> [cookie |-> FALSE, tokens |-> FALSE],
                             before |-> credentials])
    /\ UNCHANGED credentials
    /\ UNCHANGED exceptRequest

NextRequest ==
    \/ MakeRequest
    \/ RequestFails

SpecRequest == InitRequest /\ [][NextRequest]_vars

-----------------------------------------------------------------------------
(* isSessionExpired on the values a response body can be (scraper.ts 519-527) *)

\* the error property of an object: "none" is an object without one
ErrorTexts == {"none", SessionEndedMessage, "Your session has ended",
               "Session expired", ""}

\* a value that is neither an object nor null: a string, a number, undefined
Primitive(t, n) ==
    [type |-> t, null |-> FALSE, error |-> "none", redirect |-> FALSE,
     rows |-> n]

Probes ==
    {Null, Html, ListingPage(30), Primitive("number", 0),
     Primitive("undefined", 0)}
    \cup {Obj(e, rd) : e \in ErrorTexts, rd \in BOOLEAN}

InitProbe ==
    /\ probes = <<>>
    /\ IdleDisk /\ IdleSearch /\ IdleDist /\ IdleGen /\ IdleFetch
    /\ IdleCred /\ IdleExtract /\ IdleRequest /\ IdleConc

\* isSessionExpired(response)
TestResponse ==
    /\ Len(probes) < MaxProbes
    /\ \E r \in Probes :
         probes' = Append(probes, [response |-> r,
                                   verdict |-> isSessionExpired(r)])
    /\ UNCHANGED exceptProbe

NextProbe == TestResponse

SpecProbe == InitProbe /\ [][NextProbe]_vars

-----------------------------------------------------------------------------
(* Workers of main sharing credentials.json (scraper.ts 833-869). Each       *)
(* worker runs flow steps under withSessionRetry; the workers are async      *)
(* functions of one process and interleave at every await. A store is the    *)
(* coarse one of the search model. An operation that throws ends the worker. *)

Workers == 1 .. MaxConcurrent
FlowSteps == {"accept", "ajax2", "company"}
NoPending == [data |-> EmptyStore, tokens |-> FALSE]
\* the pages the portal serves to the workers: session cookie and form tokens
FullPages == {r \in ServedPages : r.tokens}

InitWorkers ==
    /\ credentials = StoredSession
    /\ status = NoStatus /\ csv = <<>> /\ results = NoResults
    /\ wpc = [w \in Workers |-> "idle"]
    /\ wop = [w \in Workers |-> "accept"]
    /\ wloaded = [w \in Workers |-> EmptyStore]
    /\ wexisting = [w \in Workers |-> NoPending]
    /\ wrenewing = [w \in Workers |-> FALSE]
    /\ wretried = [w \in Workers |-> FALSE]
    /\ savedKeys = {}
    /\ IdleSearch /\ IdleDist /\ IdleGen /\ IdleFetch
    /\ IdleCred /\ IdleExtract /\ IdleRequest /\ IdleProbe /\ IdleMain

\* withSessionRetry(() => flow step): the operation is called
BeginStep(w) ==
    /\ wpc[w] = "idle"
    /\ \E op \in FlowSteps : wop' = [wop EXCEPT ![w] = op]
    /\ wpc' = [wpc EXCEPT ![w] = "load"]
    /\ wretried' = [wretried EXCEPT ![w] = FALSE]
    /\ UNCHANGED <<credentials, wloaded, wexisting, wrenewing, savedKeys>>
    /\ UNCHANGED exceptWorkers

\* the head of flowAccept / handleAjaxFlow / flowAjaxCompany:
\* loadCredentials, then getInitialCookies when there are no cookies.
\* utils' getInitialCookies (handleAjaxFlow) requests a page, saves nothing
LoadStep(w) ==
    /\ wpc[w] = "load"
    /\ wloaded' = [wloaded EXCEPT ![w] = credentials]
    /\ wpc' = [wpc EXCEPT ![w] =
                 IF CookiesOf(credentials, "search") \/ wop[w] = "ajax2"
                 THEN "check" ELSE "home"]
    /\ UNCHANGED <<credentials, wop, wexisting, wrenewing, wretried,
                   savedKeys>>
    /\ UNCHANGED exceptWorkers

\* makeRequestAndSaveCredentials up to the read inside saveCredentials: the
\* page is fetched, existingData is read from credentials.json
RequestAndRead(w, at, next) ==
    /\ wpc[w] = at
    /\ \E resp \in FullPages :
         wexisting' = [wexisting EXCEPT
                         ![w] = [data |-> credentials, tokens |-> resp.tokens]]
    /\ wpc' = [wpc EXCEPT ![w] = next]
    /\ UNCHANGED <<credentials, wop, wloaded, wrenewing, wretried, savedKeys>>
    /\ UNCHANGED exceptWorkers

\* where a worker goes when its getInitialCookies returns: back into the
\* flow step, or, inside renewSession, to the retry of the operation
AfterAcquire(w) == IF wrenewing[w] THEN "load" ELSE "check"

\* the write of saveCredentials: existingData with the entry of url merged in
WriteEntry(w, at, url, next) ==
    /\ wpc[w] = at
    /\ credentials' = saveCredentials(wexisting[w].data, url, TRUE,
                                      wexisting[w].tokens)
    /\ savedKeys' = savedKeys \cup {url}
    /\ wpc' = [wpc EXCEPT ![w] = next]
    /\ wexisting' = [wexisting EXCEPT ![w] = NoPending]
    /\ IF next = "load"
       THEN /\ wrenewing' = [wrenewing EXCEPT ![w] = FALSE]
            /\ wretried' = [wretried EXCEPT ![w] = TRUE]
       ELSE UNCHANGED <<wrenewing, wretried>>
    /\ UNCHANGED <<wop, wloaded>>
    /\ UNCHANGED exceptWorkers

\* getInitialCookies (scraper.ts 96-132): the home page, then the search
\* page when the home page carried p_instance
HomeRequest(w) == RequestAndRead(w, "home", "homeSave")
HomeSave(w) ==
    WriteEntry(w, "homeSave", "home",
               IF wexisting[w].tokens THEN "search" ELSE AfterAcquire(w))
SearchRequest(w) == RequestAndRead(w, "search", "searchSave")
SearchSave(w) == WriteEntry(w, "searchSave", "search", AfterAcquire(w))

\* the form credentials a flow step builds its request from: those of the
\* credentials loaded at its head
FormCredentials(w) == wloaded[w]["search"]

\* the rest of the flow step: flowAccept and handleAjaxFlow throw without
\* form credentials, handleAjaxFlow also without the ajax identifier;
\* flowAjaxCompany posts whatever it has
PostStep(w) ==
    /\ wpc[w] = "check"
    /\ wpc' = [wpc EXCEPT ![w] =
                 IF wop[w] # "company" /\ ~FormCredentials(w).present
                 THEN "failedNoForm"
                 ELSE IF wop[w] = "ajax2" /\ ~FormCredentials(w).tokens
                 THEN "failedOther"
                 ELSE "posted"]
    /\ UNCHANGED <<credentials, wop, wloaded, wexisting, wrenewing, wretried,
                   savedKeys>>
    /\ UNCHANGED exceptWorkers

\* the operation returned a result that is not session-expired, or the
\* retried operation returned: withSessionRetry returns it
ReturnStep(w) ==
    /\ wpc[w] = "posted"
    /\ wpc' = [wpc EXCEPT ![w] = "idle"]
    /\ UNCHANGED <<credentials, wop, wloaded, wexisting, wrenewing, wretried,
                   savedKeys>>
    /\ UNCHANGED exceptWorkers

\* the first result is session-expired: renewSession begins with
\* writeJsonFile(credentials.json, {})
RenewStep(w) ==
    /\ wpc[w] = "posted"
    /\ ~wretried[w]
    /\ credentials' = ClearedStore
    /\ savedKeys' = {}
    /\ wrenewing' = [wrenewing EXCEPT ![w] = TRUE]
    /\ wpc' = [wpc EXCEPT ![w] = "home"]
    /\ UNCHANGED <<wop, wloaded, wexisting, wretried>>
    /\ UNCHANGED exceptWorkers

NextWorkers ==
    \E w \in Workers :
        \/ BeginStep(w)
        \/ LoadStep(w)
        \/ HomeRequest(w)
        \/ HomeSave(w)
        \/ SearchRequest(w)
        \/ SearchSave(w)
        \/ PostStep(w)
        \/ ReturnStep(w)
        \/ RenewStep(w)

SpecWorkers == InitWorkers /\ [][NextWorkers]_vars

-----------------------------------------------------------------------------
(* main (scraper.ts 769-892): the prompts, the workers, Promise.all and the  *)
(* finally block. An answer typed at a prompt is the sequence of its         *)
(* characters; worker i is Worker-i.                                         *)

LengthAnswers ==
    { <<"1">>, <<"4">>, <<"0">>, <<"-", "1">>, <<"x">>, <<>>, <<"1", "x">>,
      <<" ", "1">> }
WorkerAnswers == { <<"1">>, <<"2">>, <<"3">>, <<"0">>, <<"x">>, <<>> }
ConfirmAnswers == { <<"y">>, <<"Y">>, <<"n">>, <<>>, <<"y", "e", "s">> }

NaN == [nan |-> TRUE, value |-> 0]
Number(v) == [nan |-> FALSE, value |-> v]
isNaN(n) == n.nan

Digits == {"0", "1", "2", "3", "4"}
DigitValue(c) ==
    CASE c = "0" -> 0 [] c = "1" -> 1 [] c = "2" -> 2 [] c = "3" -> 3
      [] c = "4" -> 4

RECURSIVE TrimStart(_)
TrimStart(str) ==
    IF str # <<>> /\ Head(str) = " " THEN TrimStart(Tail(str)) ELSE str

RECURSIVE ParseDigits(_, _)
ParseDigits(str, acc) ==
    IF str = <<>> \/ Head(str) \notin Digits THEN acc
    ELSE ParseDigits(Tail(str), acc * 10 + DigitValue(Head(str)))

\* parseInt(str): leading white space is skipped, a sign is read, then the
\* longest run of digits; NaN when there is no digit
parseInt(str) ==
    LET t == TrimStart(str)
        signed == t # <<>> /\ Head(t) \in {"-", "+"}
        body == IF signed THEN Tail(t) ELSE t
        sign == IF signed /\ Head(t) = "-" THEN -1 ELSE 1
    IN  IF body = <<>> \/ Head(body) \notin Digits THEN NaN
        ELSE Number(sign * ParseDigits(body, 0))

\* isNaN(n) || n < 1
InvalidCount(n) == isNaN(n) \/ n.value < 1

\* confirm.toLowerCase()
toLowerCase(str) == [i \in DOMAIN str |-> IF str[i] = "Y" THEN "y" ELSE str[i]]

\* variant: everything but n goes on
ConfirmsUnlessNo(answer) == toLowerCase(answer) # <<"n">>

\* the confirmation goes on: confirm.toLowerCase() === 'y'
Confirms(answer) == toLowerCase(answer) = <<"y">>

\* allCombinations.length for a combination length, over MaxLetters letters
RECURSIVE CombinationCount(_)
CombinationCount(len) ==
    IF len = 0 THEN 1 ELSE MaxLetters * CombinationCount(len - 1)

\* the slice of worker i out of n workers: startIndex, endIndex and the
\* length of allCombinations.slice(startIndex, endIndex)
StartIndex(i, total, n) == i * CeilDiv(total, n)
EndIndex(i, total, n) == Min((i + 1) * CeilDiv(total, n), total)
SliceLength(i, total, n) ==
    Max(0, EndIndex(i, total, n) - StartIndex(i, total, n))
WorkerLength(i) == SliceLength(i, totalCombinations, workers)

InitMain ==
    /\ mpc = "promptLength"
    /\ lengthStr = <<>> /\ workersStr = <<>> /\ confirm = <<>>
    /\ length = 0 /\ searches = <<>> /\ wstate = <<>> /\ rlClosed = FALSE
    /\ mainLog = <<>>
    /\ IdleDisk /\ IdleSearch /\ IdleDist /\ IdleGen /\ IdleFetch
    /\ IdleCred /\ IdleExtract /\ IdleRequest /\ IdleProbe /\ IdleWorkers

\* the first prompt and the check of the length
PromptLength ==
    /\ mpc = "promptLength"
    /\ \E answer \in LengthAnswers :
         /\ lengthStr' = answer
         /\ IF InvalidCount(parseInt(answer))
            THEN /\ mainLog' = Append(mainLog, "invalid length")
                 /\ mpc' = "finally"
                 /\ UNCHANGED length
            ELSE /\ length' = parseInt(answer).value
                 /\ mpc' = "promptWorkers"
                 /\ UNCHANGED mainLog
    /\ UNCHANGED <<workersStr, confirm, searches, wstate, rlClosed,
                   totalCombinations, workers>>
    /\ UNCHANGED exceptMain

\* the second prompt and the check of the worker count
PromptWorkers ==
    /\ mpc = "promptWorkers"
    /\ \E answer \in WorkerAnswers :
         /\ workersStr' = answer
         /\ IF InvalidCount(parseInt(answer))
            THEN /\ mainLog' = Append(mainLog, "invalid workers")
                 /\ mpc' = "finally"
                 /\ UNCHANGED workers
            ELSE /\ workers' = parseInt(answer).value
                 /\ mpc' = IF length > 3 THEN "confirm" ELSE "start"
                 /\ UNCHANGED mainLog
    /\ UNCHANGED <<lengthStr, confirm, length, searches, wstate, rlClosed,
                   totalCombinations>>
    /\ UNCHANGED exceptMain

\* the confirmation asked for a length above 3
Confirm ==
    /\ mpc = "confirm"
    /\ \E answer \in ConfirmAnswers :
         /\ confirm' = answer
         /\ mpc' = IF Confirms(answer) THEN "start" ELSE "finally"
    /\ UNCHANGED <<lengthStr, workersStr, length, searches, wstate, rlClosed,
                   mainLog, totalCombinations, workers>>
    /\ UNCHANGED exceptMain

\* the combinations are generated and every worker function is called; a
\* worker with an empty slice resolves at once
StartWorkers ==
    /\ mpc = "start"
    /\ totalCombinations' = CombinationCount(length)
    /\ searches' = [i \in 0 .. (workers - 1) |-> 0]
    /\ wstate' = [i \in 0 .. (workers - 1) |->
                    IF SliceLength(i, CombinationCount(length), workers) = 0
                    THEN "resolved" ELSE "running"]
    /\ mpc' = "await"
    /\ UNCHANGED <<lengthStr, workersStr, confirm, length, rlClosed, mainLog,
                   workers>>
    /\ UNCHANGED exceptMain

\* await executeSearch(combination, workerId) of worker i: it returns and the
\* loop goes on, or it throws and the worker's promise rejects
ExecuteSearch(i) ==
    /\ wstate[i] = "running"
    /\ searches' = [searches EXCEPT ![i] = @ + 1]
    /\ \/ wstate' = [wstate EXCEPT ![i] =
                        IF searches[i] + 1 = WorkerLength(i)
                        THEN "resolved" ELSE "running"]
       \/ wstate' = [wstate EXCEPT ![i] = "rejected"]
    /\ UNCHANGED <<mpc, lengthStr, workersStr, confirm, length, rlClosed,
                   mainLog, totalCombinations, workers>>
    /\ UNCHANGED exceptMain

\* variant: main goes on when every worker has settled
AllSettled(ws) == \A i \in DOMAIN ws : ws[i] \in {"resolved", "rejected"}

\* Promise.all(workerPromises) resolves: every promise has resolved
AllResolved(ws) == \A i \in DOMAIN ws : ws[i] = "resolved"

\* await Promise.all resolves, main logs the completion
AwaitResolves ==
    /\ mpc = "await"
    /\ AllResolved(wstate)
    /\ mainLog' = Append(mainLog, "All workers have completed their tasks")
    /\ mpc' = "finally"
    /\ UNCHANGED <<lengthStr, workersStr, confirm, length, searches, wstate,
                   rlClosed, totalCombinations, workers>>
    /\ UNCHANGED exceptMain

\* await Promise.all rejects with the first rejection: the catch block logs
AwaitRejects ==
    /\ mpc = "await"
    /\ \E i \in DOMAIN wstate : wstate[i] = "rejected"
    /\ mainLog' = Append(mainLog, "Main process execution failed")
    /\ mpc' = "finally"
    /\ UNCHANGED <<lengthStr, workersStr, confirm, length, searches, wstate,
                   rlClosed, totalCombinations, workers>>
    /\ UNCHANGED exceptMain

\* finally: rl.close(), then main returns
Finally ==
    /\ mpc = "finally"
    /\ rlClosed' = TRUE
    /\ mpc' = "returned"
    /\ UNCHANGED <<lengthStr, workersStr, confirm, length, searches, wstate,
                   mainLog, totalCombinations, workers>>
    /\ UNCHANGED exceptMain

NextMain ==
    \/ PromptLength
    \/ PromptWorkers
    \/ Confirm
    \/ StartWorkers
    \/ \E i \in DOMAIN wstate : ExecuteSearch(i)
    \/ AwaitResolves
    \/ AwaitRejects
    \/ Finally

SpecMain == InitMain /\ [][NextMain]_vars

-----------------------------------------------------------------------------
(* Properties of the session guard and the search orchestrator *)

\* C1: in one call of withSessionRetry the operation is invoked at most
\* twice and renewSession at most once.
C1_RetryOnce == opCalls <= 2 /\ renewCalls <= 1

\* the events of a renewal, read backwards from a retry at position k of wlog
RenewedFully(k) ==
    /\ k > 3
    /\ wlog[k - 3] = "clear"
    /\ wlog[k - 2] \in {"home", "home+instance"}
    /\ wlog[k - 1] = "search"
RenewedWithoutSearch(k) ==
    /\ k > 2
    /\ wlog[k - 2] = "clear"
    /\ wlog[k - 1] = "home"

C3_ResumeFromStatus ==
    (pc = "company" /\ pagesThisRun = 0) =>
        IF status.kind = "status"
        THEN /\ minRow = status.currentMinRow
             /\ totalCompanies = status.totalProcessed
             /\ isFirstBatch = status.isFirstBatch
        ELSE /\ minRow = 1
             /\ totalCompanies = 0
             /\ isFirstBatch = TRUE

\* C3 witness: a run resumes at the second page
C3_Witness ==
    /\ pc = "company" /\ pagesThisRun = 0
    /\ status.kind = "status" /\ minRow = perPage + 1 /\ ~isFirstBatch

\* how often listing row r is in the file
RowCount(file, r) ==
    Cardinality({i \in DOMAIN file : file[i].lo <= r /\ r <= file[i].hi})

\* every earlier run of the query crashed
OnlyCrashedBefore ==
    history # <<>> /\ \A i \in DOMAIN history : history[i] = "crashed"

\* C4: a run resumed after crashes, once complete, leaves every listing row
\* in company_data.csv exactly once.
C4_RowsExactlyOnce ==
    (pc = "done" /\ OnlyCrashedBefore /\ resultAjaxCompany.type = "string") =>
        \A r \in 1..listing : RowCount(csv, r) = 1

\* C5: between runs a non-empty company_data.csv has the header line exactly
\* once, as its first line.
C5_HeaderOnce ==
    (~Running /\ csv # <<>>) =>
        /\ csv[1].hdr
        /\ \A i \in 2..Len(csv) : ~csv[i].hdr

\* the workers that were handed combination k
AssignedTo(k) == {i \in 1..Len(assigned) : k \in assigned[i]}

\* the range [i*ceil(T/N), min((i+1)*ceil(T/N), T)) of the i-th worker, i >= 0
CeilRange(i) ==
    LET per == IF totalCombinations % workers = 0
               THEN totalCombinations \div workers
               ELSE (totalCombinations \div workers) + 1
    IN  {k \in 0..(totalCombinations - 1) :
            i * per <= k /\ k < Min((i + 1) * per, totalCombinations)}

\* C6: once the N workers have their slices, worker i holds exactly the range
\* [i*ceil(T/N), min((i+1)*ceil(T/N), T)), the ranges are pairwise disjoint
\* and together cover 0..T-1: every combination is assigned to exactly one
\* worker.
C6_ExactlyOneWorker ==
    dpc = "running" =>
        /\ Len(assigned) = workers
        /\ \A i \in 1..workers : assigned[i] = CeilRange(i - 1)
        /\ \A i, j \in 1..workers : i # j => assigned[i] \cap assigned[j] = {}
        /\ \A k \in 0..(totalCombinations - 1) : Cardinality(AssignedTo(k)) = 1

\* C6 witness: the work does not divide evenly and there are workers with an
\* empty range next to workers with a non-empty one
C6_Witness ==
    /\ dpc = "running"
    /\ totalCombinations % workers # 0
    /\ \E i \in 1..workers : assigned[i] = {}
    /\ \E i \in 1..workers : Cardinality(assigned[i]) > 1

RECURSIVE Pow(_, _)
Pow(b, e) == IF e <= 0 THEN 1 ELSE b * Pow(b, e - 1)

\* a comes before b in the lexicographic order of the alphabet's listed order
\* (a and b of the same length)
LexLess(a, b) ==
    \E k \in 1..Len(a) :
        /\ a[k] < b[k]
        /\ \A j \in 1..(k - 1) : a[j] = b[j]

\* C7: for n <= 0 the returned list is empty; for n >= 1 it holds 33^n
\* strings, each of length exactly n over the alphabet, in strictly
\* increasing lexicographic order (hence each exactly once, and all of them).
C7_AllStringsInOrder ==
    gpc = "returned" =>
        IF maxLength <= 0
        THEN combinations = <<>>
        ELSE /\ Len(combinations) = Pow(AlphabetSize, maxLength)
             /\ \A i \in 1..Len(combinations) :
                    /\ Len(combinations[i]) = maxLength
                    /\ \A j \in 1..maxLength :
                           combinations[i][j] \in persianLetters
             /\ \A i \in 1..(Len(combinations) - 1) :
                    LexLess(combinations[i], combinations[i + 1])

\* C7 witness: the strings of length 2 were returned, built from the single
\* letters by the extension loop
C7_Witness ==
    /\ gpc = "returned"
    /\ maxLength = 2
    /\ currentLength = 3
    /\ Len(combinations) = AlphabetSize * AlphabetSize

\* the flow step `next` may follow the flow step `prev` of the same run
Follows(prev, next, res) ==
    CASE prev.step = "none"     -> next.step = "accept"
      [] prev.step = "accept"   ->
            \/ next.step = "redirect" /\ ~res.null /\ res.redirect
            \/ next.step = "ajax2" /\ ~(~res.null /\ res.redirect)
      [] prev.step = "redirect" -> next.step = "ajax2"
      [] prev.step = "ajax2"    -> next.step = "company"
      [] prev.step = "company"  ->
            /\ next.step = "company"
            /\ next.minRow = prev.minRow + perPage
      [] OTHER -> FALSE

\* C8: within a run the flow steps are issued in the order accept, redirect
\* fetch (exactly when the accept result carries redirectURL), ajax2, listing
\* pages; a step is re-issued only as the session retry of itself, and each
\* further listing page starts perPage rows after the previous one.
C8_CallOrder ==
    [][(lastCall' # lastCall /\ lastCall'.step # "none")
          => Follows(lastCall, lastCall', result)]_vars

\* C8 witness: the second listing page was requested after a redirect fetch
C8_Witness ==
    /\ lastCall = Call("company", perPage + 1)
    /\ result.redirect
    /\ pagesThisRun = 1

\* C9, as claimed: a step that fails with a network error or a 5xx response
\* has been attempted again before executeSearch fails.
C9_BackoffRetry ==
    (pc = "failed" /\ failure.at = "op" /\ failure.err = "axiosNetwork") =>
        opCalls >= 2

\* C9, amended: the steps run under the session retry only. A step is
\* attempted again only after a session-expired response; a step that fails
\* with a network error or a 5xx response without one is not attempted again:
\* executeSearch fails after that single attempt.
C9_SessionRetryOnly ==
    /\ opCalls <= 1 + expiredSeen
    /\ (pc = "failed" /\ failure.at = "op" /\ failure.err = "axiosNetwork"
            /\ expiredSeen = 0) => opCalls = 1

\* C9 witness: the ajax refine step failed with a network error on its only
\* attempt
C9_Witness ==
    /\ pc = "failed" /\ failure.step = "ajax2" /\ failure.at = "op"
    /\ failure.err = "axiosNetwork" /\ opCalls = 1

\* the failures after which the claim allows a further attempt
AllowsRetry(o) ==
    /\ ~o.ok
    /\ o.axios
    /\ (o.code \in {"ECONNABORTED", "ETIMEDOUT", "ECONNRESET"} \/ o.status >= 500)

\* C10: at most MAX_RETRIES attempts are made; every attempt but the last
\* made ended in a retryable failure (an Axios error with code ECONNABORTED,
\* ETIMEDOUT or ECONNRESET or with response status >= 500); any other failure
\* before the last allowed attempt is rethrown where it occurs; a response
\* (status below 500) is returned and never followed by an attempt; a failure
\* of attempt MAX_RETRIES throws "Failed after 3 attempts".
C10_FetchRetryPolicy ==
    LET n == Len(outcomes)
    IN  /\ n <= MAX_RETRIES
        /\ \A k \in 1..(n - 1) : AllowsRetry(outcomes[k])
        /\ (n > 0 /\ outcomes[n].ok) =>
               (fpc = "returned" /\ outcomes[n].status < 500)
        /\ (n > 0 /\ n < MAX_RETRIES /\ ~outcomes[n].ok
                /\ ~AllowsRetry(outcomes[n])) => fpc = "rethrown"
        /\ (n > 0 /\ n < MAX_RETRIES /\ AllowsRetry(outcomes[n])) =>
               (fpc = "delay" \/ (fpc = "attempt" /\ attempt = n + 1))
        /\ (n = MAX_RETRIES /\ ~outcomes[n].ok) => fpc = "failedAfter"
        /\ fpc = "failedAfter" => n = MAX_RETRIES

\* C10 witness: two retryable failures were followed by a third attempt, whose
\* failure ended the fetch
C10_Witness ==
    /\ fpc = "failedAfter"
    /\ Len(outcomes) = MAX_RETRIES
    /\ outcomes[1].code = "ECONNRESET"
    /\ outcomes[2].status = 503

\* C11: the wait after failed attempt k that is followed by a retry
\* (k = 1 .. MAX_RETRIES-1) is RETRY_DELAY * 2^(k-1) milliseconds: 2000 ms
\* after the first attempt, 4000 ms after the second.
C11_ExponentialWait ==
    /\ Len(waits) <= MAX_RETRIES - 1
    /\ \A k \in 1..Len(waits) : waits[k] = RETRY_DELAY * Pow(2, k - 1)
    /\ fpc = "attempt" => Len(waits) = attempt - 1

\* C11 witness: both waits were made, the third attempt is due
C11_Witness ==
    /\ fpc = "attempt"
    /\ attempt = MAX_RETRIES
    /\ waits = <<2000, 4000>>

\* the value a property read yields: a missing key reads as undefined
ReadValue(v) == IF v = Absent THEN Undefined ELSE v

\* C12: loadCredentials after saveCredentials(url, data) returns, under url,
\* the cookies of data and, for every token key, the value data holds for it
\* if data has the key and the previously stored value otherwise; the entry
\* of every other url is the one stored before.
C12_SaveThenLoad ==
    (loaded # NotLoaded /\ saves # <<>>) =>
        LET s == saves[Len(saves)]
            e == loaded.entries[s.url]
        IN  /\ loaded.state = "entries"
            /\ e.present
            /\ e.cookies = s.data.cookies
            /\ \A k \in TokenKeys :
                   ReadValue(e.formData[k]) =
                       ReadValue(IF s.data.formData[k] # Absent
                                 THEN s.data.formData[k]
                                 ELSE s.before[s.url].formData[k])
            /\ \A u \in Keys \ {s.url} : loaded.entries[u] = s.before[u]

\* C12 witness: a second save under the same url overrode one stored token
\* and kept another that the new data does not have
C12_Witness ==
    /\ loaded.state = "entries"
    /\ Len(saves) = 2
    /\ saves[2].url = "search"
    /\ saves[2].before["search"].formData = [instance |-> "a", flowId |-> "a"]
    /\ saves[2].data.formData = [instance |-> Absent, flowId |-> "b"]
    /\ loaded.entries["search"].formData = [instance |-> "a", flowId |-> "b"]

\* C13: once executeSearch has completed for the query (search_results.json
\* written), a later run of it, as a restarted main makes for every
\* combination, appends nothing to company_data.csv.
C13_CompletedCsvUnchanged == [][results.written => csv' = csv]_vars

\* C14: when processExtractedUrls has returned, extracted_data.csv, if it
\* holds a data row, has the header as its first line and nowhere else.
C14_ExtractedHeaderOnce ==
    (xpc = "returned" /\ extractedCsv # <<>>) =>
        /\ extractedCsv[1].hdr
        /\ \A i \in 2..Len(extractedCsv) : ~extractedCsv[i].hdr

\* C15: flowAccept does not fail for lack of form credentials when the
\* acquisition it made has succeeded: it never throws "No form credentials
\* found" while the store holds the search page's cookies and form
\* credentials that the acquisition has just saved.
C15_AcceptAfterAcquire ==
    (pc = "failed" /\ failure.step = "accept"
         /\ failure.err = NoFormCredentials) =>
        ~(/\ credentials["search"].present
          /\ credentials["search"].cookies
          /\ credentials["search"].tokens)

\* the last call got a response without a cookie and without a harvestable
\* form field, and there was no stored cookie to carry over
NothingToSave(q) ==
    /\ ~q.threw
    /\ ~q.resp.cookie
    /\ ~q.resp.tokens
    /\ (q.lookupKey = "none" \/ ~CookiesOf(q.before, q.lookupKey))

\* C16: makeRequestAndSaveCredentials leaves the credential store unchanged
\* for a response that sets no cookie and carries no harvestable form field,
\* with no cookie to carry over.
C16_SaveOnlyWithContent ==
    \A i \in 1..Len(requests) :
        (i = Len(requests) /\ NothingToSave(requests[i])) =>
            credentials = requests[i].before

\* C17: when renewSession has returned without throwing (the retry is due),
\* the credential store holds an entry for the search page with cookies and
\* form credentials.
C17_RenewedStoreHasSearch ==
    wsr = "retry" =>
        /\ credentials["search"].present
        /\ credentials["search"].cookies
        /\ credentials["search"].tokens

\* the renewal of withSessionRetry is under way or done
Renewing == wsr \in {"clear", "home", "search", "retry"}

\* C18: in a call of withSessionRetry in which no session-expired result or
\* error body was seen, the operation is invoked once only, renewSession is
\* not called and the guard does not clear the credential store; the first
\* result is what executeSearch gets, and an error thrown by the operation is
\* the error executeSearch fails with.
C18_NoRenewalWithoutExpiry ==
    expiredSeen = 0 =>
        /\ opCalls <= 1
        /\ renewCalls = 0
        /\ ~Renewing
        /\ \A k \in 1..Len(wlog) : wlog[k] = "op"
        /\ (lastCall.step = "accept" /\ pc \in {"redirect", "ajax2"}) =>
               (opCalls = 1 /\ result \in AcceptResults \ {Expired})
        /\ (pc = "failed" /\ failure.at = "op") =>
               (opCalls = 1 /\ failure.err # "axiosExpired")

\* C18 witness: the accept result, not session-expired, was handed on after
\* one invocation, and the refine step then threw an error that is not
\* session-expired and was rethrown after its one invocation
C18_Witness ==
    /\ pc = "failed" /\ failure.step = "ajax2" /\ failure.at = "op"
    /\ failure.err = "other"
    /\ result = Obj("none", FALSE)
    /\ opCalls = 1 /\ renewCalls = 0 /\ expiredSeen = 0

\* C19: isSessionExpired answers true exactly for a non-null object whose
\* error property is the string "Your session has ended."; it answers false
\* for null, for strings and for objects with another or no error value.
C19_ExpiredExactly ==
    \A i \in 1..Len(probes) :
        LET r == probes[i].response
        IN  /\ probes[i].verdict <=>
                   (/\ r.type = "object"
                    /\ ~r.null
                    /\ r.error = "Your session has ended.")
            /\ (r.null \/ r.type = "string") => ~probes[i].verdict

\* C19 witness: the session-expired object was recognised, an object with
\* another error text was not
C19_Witness ==
    /\ Len(probes) = 2
    /\ probes[1].response = Obj("Your session has ended.", FALSE)
    /\ probes[1].verdict
    /\ probes[2].response = Obj("Session expired", FALSE)
    /\ ~probes[2].verdict

\* C20: executeSearch does not complete (end the pagination and write
\* search_results.json) on a listing response that is session-expired.
C20_ExpiredNotListing ==
    pc \in {"write", "done"} => resultAjaxCompany # Expired

\* C21: against a portal that answers every page request with the rows of
\* the page, the listing loop ends: every page request is followed by the
\* end of the loop, the loop ends right after a page of fewer than perPage
\* rows, and every page requested before it in the run was a full one
LoopEnded == pc = "write"
C21_LoopTerminates ==
    /\ [](pc = "company" => <>LoopEnded)
    /\ [](LoopEnded /\ lastCall.step = "company"
            => PageRows(listing, lastCall.minRow) < perPage)
    /\ [](pc \in {"company", "process", "append", "checkpoint"}
            /\ pagesThisRun > 0
            => PageRows(listing, minRow - perPage) = perPage)

\* C21 witness: a run ended its loop after a full page and a short one
C21_Witness ==
    /\ LoopEnded /\ listing = 1030 /\ pagesThisRun = 2
    /\ lastCall = Call("company", 1001)

\* the company rows appended to a file
RECURSIVE DataRows(_)
DataRows(file) ==
    IF file = <<>> THEN 0
    ELSE (Head(file).hi - Head(file).lo + 1) + DataRows(Tail(file))

\* C22: when a fresh run of executeSearch (no checkpoint, no csv before it)
\* completes, the totalCompanies it writes to search_results.json is the
\* number of company rows it appended to company_data.csv
C22_TotalIsRowsAppended ==
    pc = "done" /\ history = <<>> => results.totalCompanies = DataRows(csv)

\* C23: the checkpoint of a page is persisted only after all rows of the page
\* are in company_data.csv, it carries the page's currentMinRow, perPage and
\* isFirstBatch, and its totalProcessed is the rows already in the file plus
\* the rows of the page; a page without rows appends nothing and leaves the
\* checkpoint unchanged
C23_CheckpointAfterAppend ==
    [][ /\ (status' # status /\ status'.kind = "status")
            => /\ pc = "checkpoint"
               /\ \A r \in minRow .. (minRow + companies - 1) :
                      RowCount(csv, r) >= 1
               /\ status' = PaginationStatus(minRow, perPage, DataRows(csv),
                                             isFirstBatch)
        /\ (pc = "process" /\ resultAjaxCompany.rows = 0)
            => (csv' = csv /\ status' = status) ]_vars

\* C24: over the runs of executeSearch for one query the checkpoint never
\* moves backwards: a checkpoint written to status.json has a currentMinRow
\* and a totalProcessed no smaller than those of the checkpoint written
\* before it, its currentMinRow is 1 modulo perPage, and its isFirstBatch is
\* true only with currentMinRow 1
C24_CheckpointMonotone ==
    [][ (status' # status /\ status'.kind = "status")
          => /\ persisted.kind = "status"
                 => /\ status'.currentMinRow >= persisted.currentMinRow
                    /\ status'.totalProcessed >= persisted.totalProcessed
             /\ status'.currentMinRow % perPage = 1
             /\ status'.isFirstBatch => status'.currentMinRow = 1 ]_vars

\* C25: with workers running at once no credential update is lost: every
\* url saved since credentials.json was last cleared has its entry there
C25_NoLostUpdate == \A url \in savedKeys : credentials[url].present

\* C26: while a worker is inside renewSession, between clearing the store
\* and filling it again, no other worker's flow step throws "No form
\* credentials found" or posts a request built from absent credentials
C26_RenewalHarmless ==
    [][ \A w \in Workers :
          ( /\ \E v \in Workers \ {w} : wrenewing[v]
            /\ wpc[w] = "check" /\ wpc'[w] # "check" )
          => /\ wpc'[w] # "failedNoForm"
             /\ FormCredentials(w).present ]_vars

\* executeSearch was called for combination c and returned
SearchReturned(c) ==
    \E i \in DOMAIN searches :
        /\ StartIndex(i, totalCombinations, workers) <= c
        /\ c < EndIndex(i, totalCombinations, workers)
        /\ c - StartIndex(i, totalCombinations, workers)
              < searches[i] - (IF wstate[i] = "rejected" THEN 1 ELSE 0)

Logged(msg) == \E k \in DOMAIN mainLog : mainLog[k] = msg

\* C27: main logs "All workers have completed their tasks" only if
\* executeSearch has returned for every generated combination, and a worker
\* whose executeSearch threw issues no further search
C27_CompletionLog ==
    /\ [](Logged("All workers have completed their tasks")
            => \A c \in 0 .. (totalCombinations - 1) : SearchReturned(c))
    /\ [][ \A i \in DOMAIN wstate :
              wstate[i] = "rejected"
              => (searches'[i] = searches[i] /\ wstate'[i] = "rejected") ]_vars

\* C27 witness: main has logged the completion of three workers, and
\* sixteen combinations were searched
C27_Witness ==
    /\ Logged("All workers have completed their tasks")
    /\ workers = 3 /\ totalCombinations > 3
    /\ \A i \in DOMAIN wstate : wstate[i] = "resolved" /\ searches[i] > 0

\* some worker has called executeSearch
Searched == \E i \in DOMAIN searches : searches[i] > 0

\* C28: main executes no search unless the length and the worker count
\* parse to integers >= 1 and, for a length above 3, the confirmation was
\* y or Y; when main returns the readline interface is closed
C28_GuardedStart ==
    /\ Searched
        => /\ ~isNaN(parseInt(lengthStr)) /\ parseInt(lengthStr).value >= 1
           /\ ~isNaN(parseInt(workersStr)) /\ parseInt(workersStr).value >= 1
           /\ parseInt(lengthStr).value > 3 => confirm \in {<<"y">>, <<"Y">>}
    /\ mpc = "returned" => rlClosed

\* C28 witness: main has returned after searches for a length above 3
\* confirmed with Y
C28_Witness ==
    /\ mpc = "returned" /\ rlClosed /\ Searched
    /\ lengthStr = <<"4">> /\ confirm = <<"Y">>

====
